---- MODULE Spec2Model ----
(***************************************************************************)
(* A model of tabular_sampling/surrogate/xgb.py: the XGBSurrogate object   *)
(* (hyperparams, model, feature_headers, label_headers, trained_), its     *)
(* persisted files, and the static dataset splitter                        *)
(* prepare_dataset_for_training.                                           *)
(*                                                                         *)
(* Conventions.  An Optional value is a sequence of length at most one:    *)
(* None is <<>> and a present value x is <<x>>.  A table is represented by *)
(* its column sequence and its set of row numbers; a fraction is a pair    *)
(* <<numerator, denominator>> with a positive denominator.  An exception   *)
(* is an outcome record whose status is the exception's name and whose     *)
(* field "at" is the line of xgb.py at which it surfaces.                  *)
(***************************************************************************)
EXTENDS Integers, Sequences, FiniteSets, TLC

VARIABLES
    data,             \* the caller's dataset (rows, groups, strata)
    hyperparams,      \* self.hyperparams
    model,            \* self.model
    feature_headers,  \* self.feature_headers
    label_headers,    \* self.label_headers
    trained_,         \* self.trained_
    disk,             \* the files of outdir
    call,             \* the arguments of the single call of SpecSplit
    ret               \* what the last call returned or raised

vars == <<data, hyperparams, model, feature_headers, label_headers, trained_,
          disk, call, ret>>

----------------------------------------------------------------------------
(* Bounds of the model. *)

MaxConfigs == 3

MaxSamples == 2

MaxCvSplits == 2

----------------------------------------------------------------------------
(* Optional values and fractions. *)

None == <<>>

Some(x) == <<x>>

Get(o) == o[1]

Zero == <<0, 1>>

One == <<1, 1>>

FracLess(a, b) == a[1] * b[2] < b[1] * a[2]

FracEq(a, b) == a[1] * b[2] = b[1] * a[2]

\* math.ceil(f * n) for a fraction f >= 0
CeilMul(f, n) == (f[1] * n + f[2] - 1) \div f[2]

\* int(1 / f) for a fraction f > 0
IntRecip(f) == f[2] \div f[1]

\* The test fractions tried: -0.5, 0, 0.2, 0.5, 0.8, 1.0, 1.5
TestSizes == {<<-1, 2>>, Zero, <<1, 5>>, <<1, 2>>, <<4, 5>>, One, <<3, 2>>}

\* The splitters' own default test fraction, used when none is passed
SplitterDefaultTestSize == <<1, 5>>

----------------------------------------------------------------------------
(* The dataset, shaped as _random_data shapes it: nconfigs configurations  *)
(* of samples_per_config rows each, the group of a row being the index of  *)
(* its configuration.                                                      *)

StrataKinds == {"const", "alt", "distinct"}

DataSets == [nconfigs : 1..MaxConfigs, samples_per_config : 1..MaxSamples,
             strata : StrataKinds]

Rows(d) == 1..(d.nconfigs * d.samples_per_config)

GroupsOf(d) == [r \in Rows(d) |-> ((r - 1) \div d.samples_per_config) + 1]

\* The class of each row in the first label column
StrataOf(d) ==
    [r \in Rows(d) |-> CASE d.strata = "const" -> 0
                         [] d.strata = "alt" -> r % 2
                         [] OTHER -> r]

GroupSet(groups, rows) == {groups[r] : r \in rows}

RowsOfGroups(groups, rows, gs) == {r \in rows : groups[r] \in gs}

ClassCounts(y, rows) ==
    {Cardinality({r \in rows : y[r] = c}) : c \in {y[r] : r \in rows}}

Min(S) == CHOOSE x \in S : \A y \in S : x <= y

RECURSIVE SubsetsOfSize(_, _)
SubsetsOfSize(S, k) ==
    IF k = 0 THEN {{}}
    ELSE IF Cardinality(S) < k THEN {}
    ELSE LET x == CHOOSE e \in S : TRUE
         IN  {T \cup {x} : T \in SubsetsOfSize(S \ {x}, k - 1)}
                 \cup SubsetsOfSize(S \ {x}, k)

----------------------------------------------------------------------------
(* The splitters of sklearn.model_selection, by their contract: each       *)
(* yields the set of first splits it can draw, or raises ValueError.       *)

SplitOk(train, test) == [status |-> "ok", train |-> train, test |-> test]

SplitRaise == [status |-> "ValueError", train |-> {}, test |-> {}]

\* ShuffleSplit(n_splits=1, test_size=test_size).split(features, strata)
ShuffleSplit(rows, test_size) ==
    LET n == Cardinality(rows)
        n_test == CeilMul(test_size, n)
    IN  IF ~(FracLess(Zero, test_size) /\ FracLess(test_size, One))
          THEN {SplitRaise}
        ELSE IF n - n_test = 0 THEN {SplitRaise}
        ELSE {SplitOk(rows \ T, T) : T \in SubsetsOfSize(rows, n_test)}

\* StratifiedShuffleSplit(n_splits=1, test_size=test_size).split(features, strata)
StratifiedShuffleSplit(rows, y, test_size) ==
    LET n == Cardinality(rows)
        n_test == CeilMul(test_size, n)
        counts == ClassCounts(y, rows)
        n_classes == Cardinality({y[r] : r \in rows})
    IN  IF ~(FracLess(Zero, test_size) /\ FracLess(test_size, One))
          THEN {SplitRaise}
        ELSE IF n - n_test = 0 THEN {SplitRaise}
        ELSE IF Min(counts) < 2 THEN {SplitRaise}
        ELSE IF n - n_test < n_classes \/ n_test < n_classes THEN {SplitRaise}
        ELSE {SplitOk(rows \ T, T) : T \in SubsetsOfSize(rows, n_test)}

\* GroupShuffleSplit(n_splits=n_splits).split(features, strata, groups):
\* no test_size is passed, so whole groups are drawn at the default fraction.
GroupShuffleSplit(rows, groups, n_splits) ==
    LET gs == GroupSet(groups, rows)
        n_test == CeilMul(SplitterDefaultTestSize, Cardinality(gs))
    IN  IF Cardinality(gs) - n_test = 0 THEN {SplitRaise}
        ELSE {SplitOk(rows \ RowsOfGroups(groups, rows, T),
                      RowsOfGroups(groups, rows, T)) :
                  T \in SubsetsOfSize(gs, n_test)}

\* StratifiedGroupKFold(n_splits=n_splits, shuffle=True)
\*     .split(features, strata, groups): the first of n_splits folds of
\* whole groups.  The groups are dealt to the folds one at a time, each to
\* the fold that keeps the folds most alike, the first group to the first
\* fold; with groups of one size the folds differ by at most one group.
\* Which groups the first fold holds depends on the shuffle.
StratifiedGroupKFold(rows, y, groups, n_splits) ==
    LET gs == GroupSet(groups, rows)
        ng == Cardinality(gs)
        counts == ClassCounts(y, rows)
    IN  IF n_splits <= 1 THEN {SplitRaise}
        ELSE IF n_splits > Cardinality(rows) THEN {SplitRaise}
        ELSE IF \A c \in counts : n_splits > c THEN {SplitRaise}
        ELSE {SplitOk(rows \ RowsOfGroups(groups, rows, T),
                      RowsOfGroups(groups, rows, T)) :
                  T \in {U \in SUBSET gs :
                            /\ Cardinality(U) >= 1
                            /\ Cardinality(U) >= ng \div n_splits
                            /\ Cardinality(U) <=
                                   (ng + n_splits - 1) \div n_splits}}

KFold(n_splits) == [kind |-> "KFold", n_splits |-> n_splits]

GroupKFold(n_splits) == [kind |-> "GroupKFold", n_splits |-> n_splits]

----------------------------------------------------------------------------
(* XGBSurrogate.prepare_dataset_for_training.  The rows of features and    *)
(* labels are row numbers; groups is None or Some(row -> group id); y is   *)
(* the strata column.  The local variables a branch binds are the fields   *)
(* of the record it yields.                                                *)

Restrict(f, S) == [r \in S |-> f[r]]

PrepRaise(status, at) ==
    [status |-> status, at |-> at, xtrain |-> None, xtest |-> None,
     ytrain |-> None, ytest |-> None, groups_train |-> None, cv |-> None]

\* line 237: the test of the test fraction
TestSizeRejected(test_size) ==
    FracLess(One, test_size) \/ FracLess(test_size, Zero)

\* lines 240-249: no test split
NoTestSplit(rows, groups, num_cv_splits) ==
    [xtrain |-> rows, ytrain |-> rows, xtest |-> None, ytest |-> None,
     cv |-> IF groups = None THEN KFold(num_cv_splits)
            ELSE GroupKFold(num_cv_splits)]

\* lines 256-258: the splitter of rows
UngroupedSplitter(rows, y, test_size, stratify) ==
    IF stratify THEN StratifiedShuffleSplit(rows, y, test_size)
    ELSE ShuffleSplit(rows, test_size)

\* lines 261-267: the locals bound from one split of rows
UngroupedLocals(s, num_cv_splits) ==
    [xtrain |-> s.train, xtest |-> Some(s.test),
     ytrain |-> s.train, ytest |-> Some(s.test),
     cv |-> KFold(num_cv_splits)]

\* The grouped branch built with the splitter of rows: groups ignored
GroupedSplitterIgnoringGroups(rows, y, groups, test_size, stratify) ==
    ShuffleSplit(rows, test_size)

\* lines 270-274: the splitter of whole groups
GroupedSplitter(rows, y, groups, test_size, stratify) ==
    IF stratify THEN StratifiedGroupKFold(rows, y, groups, IntRecip(test_size))
    ELSE GroupShuffleSplit(rows, groups, IntRecip(test_size))

\* line 279: groups.iloc[idx_train]
TrainGroups(groups, idx_train) == Restrict(groups, idx_train)

\* line 281: the cross-validation generator of the grouped branch
GroupedCv(num_cv_splits) == GroupKFold(num_cv_splits)

\* lines 275-281: the locals bound from one split of groups
GroupedLocals(s, groups, num_cv_splits) ==
    [xtrain |-> s.train, xtest |-> Some(s.test),
     ytrain |-> s.train, ytest |-> Some(s.test),
     groups_train |-> TrainGroups(groups, s.train),
     cv |-> GroupedCv(num_cv_splits)]

\* line 284: the return statement reads groups_train, bound or not
Return(l) ==
    IF "groups_train" \in DOMAIN l
      THEN [status |-> "ok", at |-> 284, xtrain |-> Some(l.xtrain),
            xtest |-> l.xtest, ytrain |-> Some(l.ytrain), ytest |-> l.ytest,
            groups_train |-> Some(l.groups_train), cv |-> Some(l.cv)]
    ELSE PrepRaise("UnboundLocalError", 284)

\* The set of outcomes of one call
prepare_dataset_for_training(rows, y, groups, test_size, num_cv_splits, stratify) ==
    IF TestSizeRejected(test_size) THEN {PrepRaise("ValueError", 238)}
    ELSE IF FracEq(test_size, Zero)
      THEN {Return(NoTestSplit(rows, groups, num_cv_splits))}
    ELSE IF groups = None
      THEN {IF s.status = "ok" THEN Return(UngroupedLocals(s, num_cv_splits))
            ELSE PrepRaise(s.status, 260) :
                s \in UngroupedSplitter(rows, y, test_size, stratify)}
    ELSE {IF s.status = "ok"
            THEN Return(GroupedLocals(s, Get(groups), num_cv_splits))
          ELSE PrepRaise(s.status, 274) :
              s \in GroupedSplitter(rows, y, Get(groups), test_size, stratify)}

----------------------------------------------------------------------------
(* Tables by their columns, and the hyperparameters.                       *)

FeatureTables == {<<"N", "epoch">>, <<"epoch", "N", "W">>}

LabelTables == {<<"acc">>, <<"loss", "acc">>}

Cols(t) == {t[i] : i \in DOMAIN t}

\* table.loc[:, headers] succeeds iff every header is a column of the table
HasColumns(t, headers) == Cols(headers) \subseteq Cols(t)

\* lines 60-71
default_hyperparams ==
    [objective |-> "reg:squarederror", booster |-> "gbtree", max_depth |-> 6,
     min_child_weight |-> 1, colsample_bytree |-> One,
     learning_rate |-> <<3, 10>>, colsample_bylevel |-> One]

\* lines 73-92: the outcome of set_random_hyperparams on hyperparams h.  With
\* h set, the dictionary display draws max_depth, min_child_weight and
\* colsample_bytree and then evaluates the name loguniform, which the module
\* neither defines nor imports: NameError, and h is left as it was.
set_random_hyperparams(h) ==
    IF h = None
      THEN [status |-> "ok", at |-> 92, value |-> Some(default_hyperparams),
            hyperparams |-> Some(default_hyperparams)]
    ELSE [status |-> "NameError", at |-> 86, value |-> None, hyperparams |-> h]

\* lines 108-118: the fields after __init__
Constructed ==
    [config_space |-> "joint_config_space", estimators_per_output |-> 500,
     hyperparams |-> set_random_hyperparams(None).hyperparams,
     model |-> None, feature_headers |-> None, label_headers |-> None,
     trained_ |-> FALSE]

\* The surrogate the calls act on; config_space and estimators_per_output
\* are never assigned after __init__.
Self ==
    [config_space |-> Constructed.config_space,
     estimators_per_output |-> Constructed.estimators_per_output,
     hyperparams |-> hyperparams, model |-> model,
     feature_headers |-> feature_headers, label_headers |-> label_headers,
     trained_ |-> trained_]

----------------------------------------------------------------------------
(* predict, lines 362-369, on a surrogate s and a table with columns t.    *)

predict(s, t) ==
    IF s.feature_headers = None \/ ~HasColumns(t, Get(s.feature_headers))
      THEN [status |-> "KeyError", at |-> 366, value |-> None]
    ELSE IF s.model = None
      THEN [status |-> "AttributeError", at |-> 367, value |-> None]
    ELSE [status |-> "ok", at |-> 369,
          value |-> Some([columns |-> s.label_headers, by |-> Get(s.model),
                          on |-> Get(s.feature_headers)])]

----------------------------------------------------------------------------
(* What the cross-validation generator yields inside the search of line    *)
(* 337, by sklearn's contract: single folds <<training rows, validation    *)
(* rows>>.  KFold cuts the rows by position and ignores groups; GroupKFold *)
(* puts each group wholly into one fold.                                   *)

CvRaises(cv, rows, groups) ==
    IF cv.kind = "KFold" THEN cv.n_splits > Cardinality(rows)
    ELSE groups = None
         \/ cv.n_splits > Cardinality(GroupSet(Get(groups), rows))

CvFolds(cv, rows, groups) ==
    LET n == Cardinality(rows)
        k == cv.n_splits
    IN  IF CvRaises(cv, rows, groups) THEN {}
        ELSE IF cv.kind = "KFold"
          THEN {<<rows \ V, V>> :
                   V \in {W \in SUBSET rows :
                             \/ Cardinality(W) = n \div k
                             \/ n % k # 0 /\ Cardinality(W) = (n \div k) + 1}}
        ELSE LET gs == GroupSet(Get(groups), rows)
             IN  {<<rows \ RowsOfGroups(Get(groups), rows, V),
                    RowsOfGroups(Get(groups), rows, V)>> :
                     V \in (SUBSET gs) \ {{}, gs}}

----------------------------------------------------------------------------
(* fit, lines 289-360.                                                     *)

FitArgs ==
    [features : FeatureTables, labels : LabelTables, grouped : BOOLEAN,
     perform_hpo : BOOLEAN, test_size : TestSizes,
     num_cv_splits : 2..MaxCvSplits, stratify : BOOLEAN]

\* The feature order redefined by every call
FitFeatureHeadersRedefined(stored, columns) == Some(columns)

\* lines 295-298: the stored feature order after the first statement
FitFeatureHeaders(stored, columns) ==
    IF stored = None THEN Some(columns) ELSE stored

\* lines 301-304: the stored label order after the second statement
FitLabelHeaders(stored, columns) ==
    IF stored = None THEN Some(columns) ELSE stored

\* lines 322-340: the object assigned to self.model
FitModel(perform_hpo, h, fh, lh) ==
    [kind |-> IF perform_hpo THEN "RandomizedSearchCV" ELSE "Pipeline",
     multiout |-> Len(lh) > 1, hyperparams |-> h, features |-> fh,
     outputs |-> lh]

\* lines 333-340: the training call raises, propagating sklearn's error
TrainingRaises(perform_hpo, cv, xtrain, groups) ==
    \/ xtrain = {}
    \/ perform_hpo /\ CvRaises(cv, xtrain, groups)

\* The flag cleared instead of set
FitTrainedCleared == FALSE

\* line 342
FitTrained == TRUE

\* lines 347-358: the keys of the score table
Scores(test_size) ==
    {"train_r2", "train_mse"}
        \cup IF FracLess(Zero, test_size) THEN {"test_r2", "test_mse"} ELSE {}

\* What a call of fit leaves to look at: how it ended, the test fraction and
\* whether groups were given, what line 337 handed to the search, the keys
\* of the score table and the object assigned to self.model.
FitRet(a, status, at, search, scores, fitted) ==
    [op |-> "fit", status |-> status, at |-> at, test_size |-> a.test_size,
     grouped |-> a.grouped, search |-> search, scores |-> scores,
     fitted |-> fitted]

Fit(a) ==
    LET fh == FitFeatureHeaders(feature_headers, a.features)
        lh == FitLabelHeaders(label_headers, a.labels)
        groups == IF a.grouped THEN Some(GroupsOf(data)) ELSE None
    IN  /\ UNCHANGED <<data, hyperparams, disk, call>>
        /\ IF ~HasColumns(a.features, Get(fh))
             THEN /\ ret' = FitRet(a, "KeyError", 298, None, {}, None)
                  /\ UNCHANGED <<feature_headers, label_headers, model,
                                 trained_>>
           ELSE IF ~HasColumns(a.labels, Get(lh))
             THEN /\ feature_headers' = fh
                  /\ ret' = FitRet(a, "KeyError", 304, None, {}, None)
                  /\ UNCHANGED <<label_headers, model, trained_>>
           ELSE
             \E p \in prepare_dataset_for_training(
                          Rows(data), StrataOf(data), groups, a.test_size,
                          a.num_cv_splits, a.stratify) :
                /\ feature_headers' = fh
                /\ label_headers' = lh
                /\ IF p.status # "ok"
                     THEN /\ ret' = FitRet(a, p.status, p.at, None, {}, None)
                          /\ UNCHANGED <<model, trained_>>
                   ELSE IF TrainingRaises(a.perform_hpo, Get(p.cv),
                                          Get(p.xtrain), p.groups_train)
                     THEN /\ ret' = FitRet(a, "ValueError",
                                           IF a.perform_hpo THEN 337 ELSE 340,
                                           None, {}, None)
                          /\ UNCHANGED <<model, trained_>>
                   ELSE
                     LET m == FitModel(a.perform_hpo, Get(hyperparams),
                                       Get(fh), Get(lh))
                     IN  /\ model' = Some(m)
                         /\ trained_' = FitTrained
                         /\ ret' = FitRet(a, "ok", 360,
                                IF a.perform_hpo
                                  THEN Some([cv |-> Get(p.cv),
                                             rows |-> Get(p.xtrain),
                                             groups |-> p.groups_train])
                                ELSE None,
                                Scores(a.test_size), Some(m))

\* the static splitter called on its own
Prepare(a) ==
    LET groups == IF a.grouped THEN Some(GroupsOf(data)) ELSE None
    IN  /\ \E p \in prepare_dataset_for_training(
                        Rows(data), StrataOf(data), groups, a.test_size,
                        a.num_cv_splits, a.stratify) :
               ret' = [op |-> "prepare", status |-> p.status, at |-> p.at,
                       out |-> p]
        /\ UNCHANGED <<data, hyperparams, model, feature_headers,
                       label_headers, trained_, disk, call>>

----------------------------------------------------------------------------
(* The other calls on the surrogate.                                       *)

SetRandomHyperparams ==
    LET o == set_random_hyperparams(hyperparams)
    IN  /\ hyperparams' = o.hyperparams
        /\ ret' = [op |-> "set_random_hyperparams", status |-> o.status,
                   at |-> o.at, value |-> o.value]
        /\ UNCHANGED <<data, model, feature_headers, label_headers, trained_,
                       disk, call>>

Predict ==
    \E t \in FeatureTables :
        LET o == predict(Self, t)
        IN  /\ ret' = [op |-> "predict", status |-> o.status, at |-> o.at,
                       table |-> t, value |-> o.value]
            /\ UNCHANGED <<data, hyperparams, model, feature_headers,
                           label_headers, trained_, disk, call>>

----------------------------------------------------------------------------
(* dump and load, lines 371-396.  A file of outdir is None while absent.   *)
(* joblib.dump / to_pickle store a value as a payload and joblib.load /    *)
(* read_pickle give the stored value back.                                 *)

Pickle(v) == [payload |-> v]

Unpickle(f) == f.payload

\* pandas.Index.to_series: the labels as both index and values
to_series(idx) == [i \in DOMAIN idx |-> [index |-> idx[i], value |-> idx[i]]]

\* pandas.Index(series): the values of the series
Index(series) == [i \in DOMAIN series |-> series[i].value]

\* The saved attributes with feature_headers left out
ParamKeysWithoutFeatureHeaders ==
    {"estimators_per_output", "hyperparams", "config_space", "label_headers",
     "trained_"}

\* lines 42-43
ParamKeys ==
    {"estimators_per_output", "hyperparams", "config_space", "label_headers",
     "feature_headers", "trained_"}

NoFiles == [params |-> None, headers |-> None, model |-> None]

\* lines 374-378: the files of outdir after s.dump(outdir)
dump(s, files) ==
    [params |-> Some(Pickle([k \in ParamKeys |-> s[k]])),
     headers |-> IF s.trained_
                   THEN Some(Pickle(to_series(Get(s.label_headers))))
                 ELSE files.headers,
     model |-> IF s.trained_ THEN Some(Pickle(Get(s.model)))
               ELSE files.model]

\* lines 385-387: a default instance with the saved attributes set on it
SetAttrs(params) ==
    [k \in DOMAIN Constructed |->
        IF k \in DOMAIN params THEN params[k] ELSE Constructed[k]]

\* line 393
RestoredLabelHeaders(series) == Some(Index(series))

\* The model file read but not set on the loaded surrogate
RestoredModelDropped(m) == None

\* line 394
RestoredModel(m) == Some(m)

\* lines 384-396
load(files) ==
    IF files.params = None
      THEN [status |-> "FileNotFoundError", at |-> 384, value |-> None]
    ELSE
      LET surrogate == SetAttrs(Unpickle(Get(files.params)))
      IN  IF ~surrogate.trained_
            THEN [status |-> "ok", at |-> 396, value |-> Some(surrogate)]
          ELSE IF files.headers = None
            THEN [status |-> "FileNotFoundError", at |-> 390, value |-> None]
          ELSE IF files.model = None
            THEN [status |-> "FileNotFoundError", at |-> 391, value |-> None]
          ELSE [status |-> "ok", at |-> 396,
                value |-> Some([surrogate EXCEPT
                    !.label_headers =
                        RestoredLabelHeaders(Unpickle(Get(files.headers))),
                    !.model = RestoredModel(Unpickle(Get(files.model)))])]

Dump ==
    /\ disk' = dump(Self, disk)
    /\ ret' = [op |-> "dump", status |-> "ok", at |-> 378]
    /\ UNCHANGED <<data, hyperparams, model, feature_headers, label_headers,
                   trained_, call>>

Load ==
    LET o == load(disk)
    IN  /\ ret' = [op |-> "load", status |-> o.status, at |-> o.at,
                   value |-> o.value]
        /\ UNCHANGED <<data, hyperparams, model, feature_headers,
                       label_headers, trained_, disk, call>>

----------------------------------------------------------------------------
(* Specifications.  Spec: any sequence of calls on one surrogate over one  *)
(* dataset.  SpecSplit: one call of the splitter, or of fit, for every     *)
(* combination of arguments.                                               *)

Fresh ==
    /\ data \in DataSets
    /\ hyperparams = Constructed.hyperparams
    /\ model = Constructed.model
    /\ feature_headers = Constructed.feature_headers
    /\ label_headers = Constructed.label_headers
    /\ trained_ = Constructed.trained_
    /\ disk = NoFiles
    /\ ret = [op |-> "__init__", status |-> "ok", at |-> 118]

\* The calls of Spec work on the largest datasets with one stratum and try a
\* test fraction of 0, of 0.2 and of 1.5.
LifeDataSets ==
    {d \in DataSets : d.nconfigs = MaxConfigs /\ d.strata = "const"}

LifeTestSizes == {Zero, <<1, 5>>, <<3, 2>>}

Init == Fresh /\ data \in LifeDataSets /\ call = None

FitAny == \E a \in FitArgs : a.test_size \in LifeTestSizes /\ Fit(a)

Next == FitAny \/ Predict \/ SetRandomHyperparams \/ Dump \/ Load

Spec == Init /\ [][Next]_vars

InitSplit == Fresh /\ call \in {Some(a) : a \in FitArgs}

PrepareOnce == ret.op = "__init__" /\ Prepare(Get(call))

FitOnce == ret.op = "__init__" /\ Fit(Get(call))

NextSplit == PrepareOnce \/ FitOnce

SpecSplit == InitSplit /\ [][NextSplit]_vars

----------------------------------------------------------------------------
(* Properties.  In SpecSplit the arguments of the call are Args.           *)

Args == Get(call)

Abs(i) == IF i < 0 THEN -i ELSE i

\* the test fraction lies in [0, 1)
ValidTestSize(f) == ~FracLess(f, Zero) /\ FracLess(f, One)

\* the test fraction lies in (0, 1)
ProperTestSize(f) == FracLess(Zero, f) /\ FracLess(f, One)

\* the lines at which an error of sklearn, raised for data it cannot split
\* or fit, passes through unchanged
SklearnLines == {260, 274, 337, 340}

\* C1: a call of fit on a constructed surrogate with a test fraction in
\* [0, 1), groups or none, search or none, on data sklearn accepts,
\* completes, sets the trained flag and returns train_r2 and train_mse, plus
\* test_r2 and test_mse exactly when the test fraction is positive.
C1_FitCompletes ==
    (ret.op = "fit" /\ ValidTestSize(Args.test_size)
         /\ ret.at \notin SklearnLines)
    => /\ ret.status = "ok"
       /\ trained_
       /\ {"train_r2", "train_mse"} \subseteq ret.scores
       /\ ({"test_r2", "test_mse"} \subseteq ret.scores
              <=> FracLess(Zero, Args.test_size))
       /\ ret.scores \subseteq {"train_r2", "train_mse", "test_r2", "test_mse"}

\* C2: prepare_dataset_for_training with a test fraction of 0 returns, with
\* or without groups: the training rows are all rows, the test features and
\* test labels are None, and the generator is a grouped K-fold exactly when
\* groups are given.
C2_NoTestSplitReturns ==
    (ret.op = "prepare" /\ FracEq(Args.test_size, Zero))
    => /\ ret.status = "ok"
       /\ ret.out.xtrain = Some(Rows(data))
       /\ ret.out.ytrain = Some(Rows(data))
       /\ ret.out.xtest = None
       /\ ret.out.ytest = None
       /\ ret.out.cv # None
       /\ Get(ret.out.cv).kind =
              IF Args.grouped THEN "GroupKFold" ELSE "KFold"

\* C3: for a test fraction in (0, 1), with or without groups, stratified or
\* not, on data sklearn can split, prepare_dataset_for_training returns a
\* train set and a test set that partition the rows, the labels split by the
\* same rows as the features.
C3_SplitPartitions ==
    (ret.op = "prepare" /\ ProperTestSize(Args.test_size)
         /\ ret.at \notin SklearnLines)
    => /\ ret.status = "ok"
       /\ ret.out.xtrain # None /\ ret.out.xtest # None
       /\ Get(ret.out.xtrain) \cup Get(ret.out.xtest) = Rows(data)
       /\ Get(ret.out.xtrain) \cap Get(ret.out.xtest) = {}
       /\ ret.out.ytrain = ret.out.xtrain
       /\ ret.out.ytest = ret.out.xtest

\* no fold of the generator cv over rows, handed groups, has a group of the
\* dataset on both of its sides
FoldsKeepGroups(cv, rows, groups) ==
    \A f \in CvFolds(cv, rows, groups) :
        GroupSet(GroupsOf(data), f[1]) \cap GroupSet(GroupsOf(data), f[2]) = {}

\* C4: with groups given, the train and test rows that
\* prepare_dataset_for_training returns share no group, the training groups
\* it returns are the groups of the training rows, its generator is a grouped
\* K-fold none of whose folds splits a group, and the search of fit is handed
\* that generator with those groups, so none of its folds splits a group.
C4_GroupsAtomic ==
    /\ (ret.op = "prepare" /\ ret.status = "ok" /\ Args.grouped)
       => /\ GroupSet(GroupsOf(data), Get(ret.out.xtrain))
                 \cap GroupSet(GroupsOf(data), Get(ret.out.xtest)) = {}
          /\ ret.out.groups_train =
                 Some(Restrict(GroupsOf(data), Get(ret.out.xtrain)))
          /\ Get(ret.out.cv).kind = "GroupKFold"
          /\ FoldsKeepGroups(Get(ret.out.cv), Get(ret.out.xtrain),
                             ret.out.groups_train)
    /\ (ret.op = "fit" /\ ret.search # None /\ Args.grouped)
       => /\ Get(ret.search).cv.kind = "GroupKFold"
          /\ Get(ret.search).groups =
                 Some(Restrict(GroupsOf(data), Get(ret.search).rows))
          /\ FoldsKeepGroups(Get(ret.search).cv, Get(ret.search).rows,
                             Get(ret.search).groups)

\* C4 witness: a search that fit ran on grouped rows of more than one row a
\* group, with folds to draw
C4_Witness ==
    /\ ret.op = "fit" /\ ret.status = "ok" /\ ret.search # None
    /\ Args.grouped /\ data.samples_per_config > 1
    /\ CvFolds(Get(ret.search).cv, Get(ret.search).rows,
               Get(ret.search).groups) # {}

\* C5: for a test fraction below 0 or at least 1, exactly 1 included,
\* prepare_dataset_for_training and fit raise a validation error and no
\* split is produced.
C5_RejectsOutOfRange ==
    (ret.op \in {"prepare", "fit"} /\ ~ValidTestSize(Args.test_size))
    => /\ ret.status = "ValueError"
       /\ ret.op = "prepare" => ret.out.xtrain = None

\* C10: for a test fraction in (0, 1), whenever a split is returned, the
\* share split off is the requested fraction: the number of test groups
\* (of test rows, without groups) is within one of the fraction times the
\* number of groups (of rows).
C10_TestShareIsRequested ==
    (ret.op = "prepare" /\ ret.status = "ok"
         /\ ProperTestSize(Args.test_size))
    => LET n == IF Args.grouped THEN data.nconfigs
                ELSE Cardinality(Rows(data))
           n_test == IF Args.grouped
                       THEN Cardinality(GroupSet(GroupsOf(data),
                                                 Get(ret.out.xtest)))
                     ELSE Cardinality(Get(ret.out.xtest))
       IN  Abs(n_test * Args.test_size[2] - Args.test_size[1] * n)
               < Args.test_size[2]

----------------------------------------------------------------------------
(* Properties of the calls on one surrogate, under Spec.                   *)

FracWithin(f, lo, hi) == ~FracLess(f, lo) /\ ~FracLess(hi, f)

\* every value within its declared bound
InBounds(h) ==
    /\ h.max_depth \in 1..14
    /\ h.min_child_weight \in 1..9
    /\ FracWithin(h.colsample_bytree, Zero, One)
    /\ FracWithin(h.colsample_bylevel, Zero, One)
    /\ FracWithin(h.learning_rate, <<1, 1000>>, <<1, 2>>)

\* C7: the call of set_random_hyperparams made by the constructor stores the
\* default configuration; a call made after it returns, and stores, a
\* configuration with every value within its bound.
C7_RandomHyperparamsInBounds ==
    /\ ret.op = "__init__" => hyperparams = Some(default_hyperparams)
    /\ ret.op = "set_random_hyperparams"
       => /\ ret.status = "ok"
          /\ ret.value # None
          /\ InBounds(Get(ret.value))
          /\ hyperparams = ret.value

\* C6: a load that follows a dump succeeds and gives a surrogate with the
\* hyperparameters, feature order, label order and trained flag of the one
\* dumped and, when that is trained, its model, so that predict gives the
\* same on every table; dumped untrained, only the parameter file is in
\* outdir and the loaded surrogate is untrained and has no model.
C6_DumpLoadRoundTrip ==
    [][(ret.op = "dump" /\ ret'.op = "load")
       => /\ ret'.status = "ok"
          /\ LET loaded == Get(ret'.value)
             IN  /\ loaded.hyperparams = hyperparams
                 /\ loaded.feature_headers = feature_headers
                 /\ loaded.label_headers = label_headers
                 /\ loaded.trained_ = trained_
                 /\ trained_ => loaded.model = model /\ model # None
                 /\ \A t \in FeatureTables : predict(loaded, t) = predict(Self, t)
                 /\ ~trained_ => /\ loaded.model = None
                                 /\ disk.params # None
                                 /\ disk.headers = None
                                 /\ disk.model = None]_vars

\* C6 witness: a trained surrogate loaded back, equal to the one dumped
C6_Witness ==
    /\ ret.op = "load" /\ ret.status = "ok"
    /\ trained_
    /\ Get(ret.value) = Self
    /\ Len(Get(label_headers)) > 1

\* C8: once set, neither the stored feature order nor the stored label order
\* changes in any call; predict reads its input in the stored feature order
\* and names its output columns by the stored label order, and fit trains on
\* the stored orders.
C8_HeadersFixed ==
    [][/\ feature_headers # None => feature_headers' = feature_headers
       /\ label_headers # None => label_headers' = label_headers
       /\ (ret'.op = "predict" /\ ret'.status = "ok")
          => /\ Get(ret'.value).on = Get(feature_headers)
             /\ Get(ret'.value).columns = label_headers
       /\ (ret'.op = "fit" /\ ret'.status = "ok"
               /\ feature_headers # None /\ label_headers # None)
          => /\ Get(ret'.fitted).features = Get(feature_headers)
             /\ Get(ret'.fitted).outputs = Get(label_headers)]_vars

\* C8 witness: a predict given a table whose columns differ from the stored
\* feature order, read in the stored order
C8_Witness ==
    /\ ret.op = "predict" /\ ret.status = "ok"
    /\ ret.table # Get(feature_headers)
    /\ Get(ret.value).on = Get(feature_headers)

\* C9: a surrogate is untrained after construction, trained after a fit that
\* returns, with the model that fit built as its model, and never untrained
\* again, whatever is called and however it ends.
C9_TrainedOneWay ==
    [][/\ ret.op = "__init__" => ~trained_
       /\ trained_ => trained_'
       /\ (ret'.op = "fit" /\ ret'.status = "ok")
          => trained_' /\ model' = ret'.fitted /\ model' # None]_vars

\* C9 witness: a fit that raised on a trained surrogate
C9_Witness ==
    ret.op = "fit" /\ ret.status # "ok" /\ trained_ /\ model # None

\* a surrogate s whose trained flag is set has a model and both orders, and
\* its hyperparameters are set
WellFormed(s) ==
    /\ s.trained_ => /\ s.model # None
                     /\ s.feature_headers # None
                     /\ s.label_headers # None
    /\ s.hyperparams # None

\* C11: after any sequence of calls, the surrogate, and the surrogate a load
\* returned, has a model, a feature order and a label order whenever its
\* trained flag is set, and its hyperparameters are set.
C11_TrainedHasModel ==
    /\ WellFormed(Self)
    /\ (ret.op = "load" /\ ret.status = "ok") => WellFormed(Get(ret.value))

\* C11 witness: a trained surrogate loaded back from the files of a trained
\* one, its hyperparameters the saved ones
C11_Witness ==
    /\ trained_ /\ model # None
    /\ ret.op = "load" /\ ret.status = "ok"
    /\ Get(ret.value).trained_
    /\ Get(ret.value).model # None
    /\ Get(ret.value).hyperparams = Some(default_hyperparams)

====
